---- MODULE Spec2Model ----
(***************************************************************************)
(* A model of the inventory tool: the Google-Sheets adapter (sheets.py),   *)
(* the search routine and its command line (search_inventory.py) and the   *)
(* Dash callbacks that edit rows (dash_inventory.py).                      *)
(*                                                                         *)
(* Text is a sequence of one-character strings.  A sheet is the sequence   *)
(* of its physical rows (row 1 is the header), each row a sequence of cell *)
(* texts, as the CSV export shows it.  A Python value (a DataFrame cell, a *)
(* callback argument) is a record [k, v]: k = "s" a str with text v,       *)
(* k = "n" an int with digits v, k = "f" a float with integral value v,    *)
(* k = "nan" a float NaN, k = "none" None.                                 *)
(***************************************************************************)
EXTENDS Integers, Sequences, FiniteSets, TLC

VARIABLES
    sheet,      \* the remote worksheet: physical rows, sheet[1] the header
    aCall,      \* sheets.py: the last adapter call and its outcome
    sDf,        \* search_inventory.py: the DataFrame loaded by load_data
    sField,     \* search_inventory.py: args.field
    sPc,        \* search_inventory.py: where main() stands
    sOut,       \* search_inventory.py: the last query and what it produced
    store,      \* dcc.Store "data-store"
    query,      \* "query-input" value
    field,      \* "field-dropdown" value
    tableData,  \* "result-table" data (records, in view order)
    tableCols,  \* "result-table" columns
    selected,   \* "result-table" selected_rows
    modalOpen,  \* "edit-modal" is_open
    modal,      \* the seven edit-* field values of the modal
    status,     \* "upload-status" children
    tableIdx,   \* for each displayed row, its index label in the DataFrame
                \* the view was built from (to_dict("records") drops it)
    nWrites,    \* number of remote mutations requested so far
    lastEvt,    \* the last callback that ran, with what it read and wrote
    clients,    \* for each of two clients of the sheet: its snapshot, and
                \* the write it made from it
    toast,      \* "undo-toast" is_open, "undo-interval" disabled and
                \* n_intervals, and the ticks since the last click
    auditLog    \* dcc.Store "audit-log"

searchVars == <<sDf, sField, sPc, sOut>>
dashVars == <<store, query, field, tableData, tableCols, tableIdx, selected,
              modalOpen, modal, status, lastEvt>>
vars == <<sheet, aCall, sDf, sField, sPc, sOut, store, query, field, tableData,
          tableCols, tableIdx, selected, modalOpen, modal, status, nWrites,
          lastEvt, clients, toast, auditLog>>

uiVars == <<toast, auditLog>>

---------------------------------------------------------------------------
(* Bounds of the model *)
\* the interval fires at most this many times in a behaviour
MaxTicks == 52

\* most data rows a sheet drawn at Init holds
MaxRows == 2
\* most remote mutations (update_row / append_row requests) in one behaviour
MaxWrites == 1

---------------------------------------------------------------------------
(* Python values and text *)

None == [k |-> "none", v |-> <<>>]
NaN == [k |-> "nan", v |-> <<>>]
PyStr(t) == [k |-> "s", v |-> t]
PyInt(t) == [k |-> "n", v |-> t]
PyFloat(t) == [k |-> "f", v |-> t]

\* Python truthiness of a callback value: None and "" are falsy
Truthy(x) == ~(x.k = "none" \/ (x.k = "s" /\ x.v = <<>>))

Range(f) == {f[i] : i \in DOMAIN f}

UpperCs == <<"A","B","C","D","E","F","G","H","I","J","K","L","M",
             "N","O","P","Q","R","S","T","U","V","W","X","Y","Z">>
LowerCs == <<"a","b","c","d","e","f","g","h","i","j","k","l","m",
             "n","o","p","q","r","s","t","u","v","w","x","y","z">>

\* the lower-case letter of each upper-case letter
LowerOf == [c \in Range(UpperCs) |->
               LowerCs[CHOOSE i \in 1..26 : UpperCs[i] = c]]

LowerChar(c) == IF c \in DOMAIN LowerOf THEN LowerOf[c] ELSE c

\* str.lower()
Lower(t) == [i \in 1..Len(t) |-> LowerChar(t[i])]

Whitespace == {" "}

\* str.strip()
Strip(t) ==
    LET keep == {i \in 1..Len(t) : t[i] \notin Whitespace}
    IN  IF keep = {} THEN <<>>
        ELSE SubSeq(t, CHOOSE i \in keep : \A j \in keep : i <= j,
                       CHOOSE i \in keep : \A j \in keep : j <= i)

Digits == {"0","1","2","3","4","5","6","7","8","9"}

\* str(v) / Series.astype(str) of one value
AsStr(x) ==
    CASE x.k = "s" -> x.v
      [] x.k = "n" -> x.v
      [] x.k = "f" -> x.v \o <<".", "0">>
      [] x.k = "nan" -> <<"n","a","n">>
      [] OTHER -> <<"N","o","n","e">>

\* pat is, letter case ignored, a substring of hay
Contains(hay, pat) ==
    LET h == Lower(hay)
        p == Lower(pat)
    IN  \E i \in 0..(Len(h) - Len(p)) : SubSeq(h, i + 1, i + Len(p)) = p

---------------------------------------------------------------------------
(* Text constants used by the bounded inputs *)

Widget == <<"W","i","d","g","e","t">>
Gadget == <<"G","a","d","g","e","t">>
TwoWords == <<"a"," ","b">>
Yes == <<"y","e","s">>
No == <<"n","o">>
Maybe == <<"m","a","y","b","e">>
AParen1 == <<"A","(","1",")">>
APlain1 == <<"A","1">>
Gadgets == <<"g","a","d","g","e","t","s">>

---------------------------------------------------------------------------
(* sheets.py: the worksheet and the DataFrame read from it *)

\* pandas.read_csv: cell texts read as missing (a part of its default list)
NaTokens == {<<>>, <<"n","a","n">>, <<"N","a","N">>, <<"N","A">>,
             <<"n","u","l","l">>}

IsIntText(t) == t # <<>> /\ \A i \in 1..Len(t) : t[i] \in Digits

IsDecText(t) ==
    /\ Len(t) >= 3
    /\ t[Len(t)] = "0"
    /\ t[Len(t) - 1] = "."
    /\ IsIntText(SubSeq(t, 1, Len(t) - 2))

IntPart(t) == IF IsDecText(t) THEN SubSeq(t, 1, Len(t) - 2) ELSE t

\* pandas.read_csv: the dtype inferred for column c of the data rows
ColumnDtype(data, c) ==
    LET cells == {data[i][c] : i \in 1..Len(data)}
        vals == cells \ NaTokens
    IN  IF \A t \in vals : IsIntText(t) \/ IsDecText(t)
        THEN IF vals # {} /\ cells = vals /\ \A t \in vals : IsIntText(t)
             THEN "int64" ELSE "float64"
        ELSE "object"

\* pandas.read_csv: one cell text as a value of its column's dtype
ParseCell(t, dtype) ==
    IF t \in NaTokens THEN NaN
    ELSE CASE dtype = "int64" -> PyInt(t)
           [] dtype = "float64" -> PyFloat(IntPart(t))
           [] OTHER -> PyStr(t)

\* pd.RangeIndex(n): the labels 0 .. n-1
RangeIndex(n) == [i \in 1..n |-> i - 1]

\* get_df: pd.read_csv of the CSV export; line 1 is the header, the data
\* rows get the labels 0, 1, ... in sheet order.
get_df(sh) ==
    LET data == Tail(sh)
    IN  [columns |-> sh[1],
         index |-> RangeIndex(Len(data)),
         rows |-> [i \in 1..Len(data) |->
                      [c \in 1..Len(sh[1]) |->
                          ParseCell(data[i][c], ColumnDtype(data, c))]]]

\* The text a value leaves in a cell (value_input_option RAW): a float with
\* an integral value shows as the integer.
Wire(x) == x.v

BlankRow(w) == [c \in 1..w |-> <<>>]

\* ws.update(range_name="A<r>", values=[vals]): the cells of physical row r
\* from column A on; a null value leaves its cell as it is; rows between
\* the last row and r are blank.
WriteRange(sh, r, vals) ==
    LET w == Len(sh[1])
        old(i) == IF i <= Len(sh) THEN sh[i] ELSE BlankRow(w)
        n == IF r > Len(sh) THEN r ELSE Len(sh)
    IN  [i \in 1..n |->
            IF i = r
            THEN [c \in 1..w |->
                     IF c <= Len(vals) /\ vals[c].k # "none"
                     THEN Wire(vals[c]) ELSE old(i)[c]]
            ELSE old(i)]

Raised(name, sh) == [ok |-> FALSE, err |-> name, sheet |-> sh]
Returned(sh) == [ok |-> TRUE, err |-> "", sheet |-> sh]

\* The request body is JSON: a NaN among the values cannot be sent.
Serialisable(vals) == \A i \in 1..Len(vals) : vals[i].k # "nan"

\* A faulty variant of update_row: a position past the last data row refused.
update_row_within_table(sh, row_idx, row_values, up) ==
    IF ~up THEN Raised("TransportError", sh)
    ELSE IF ~Serialisable(row_values) THEN Raised("InvalidJSONError", sh)
    ELSE IF row_idx + 2 < 1 THEN Raised("APIError", sh)
    ELSE IF row_idx + 2 > Len(sh) THEN Raised("PositionOutOfRange", sh)
    ELSE Returned(WriteRange(sh, row_idx + 2, row_values))

\* A faulty variant of update_row: the header row forgotten (row_idx + 1).
update_row_off_by_one(sh, row_idx, row_values, up) ==
    IF ~up THEN Raised("TransportError", sh)
    ELSE IF ~Serialisable(row_values) THEN Raised("InvalidJSONError", sh)
    ELSE IF row_idx + 1 < 1 THEN Raised("APIError", sh)
    ELSE Returned(WriteRange(sh, row_idx + 1, row_values))

\* update_row: ws.update at "A<row_idx + 2>".  up: the service answers.
\* No range check is made: a range the API cannot address (row < 1) is
\* the API's error, any other row is written.
update_row(sh, row_idx, row_values, up) ==
    IF ~up THEN Raised("TransportError", sh)
    ELSE IF ~Serialisable(row_values) THEN Raised("InvalidJSONError", sh)
    ELSE IF row_idx + 2 < 1 THEN Raised("APIError", sh)
    ELSE Returned(WriteRange(sh, row_idx + 2, row_values))

\* A faulty variant of AppendCells: the last row overwritten.
AppendCells_over_last(sh, vals) ==
    [sh EXCEPT ![Len(sh)] = [c \in 1..Len(sh[1]) |->
                               IF c <= Len(vals) /\ vals[c].k # "none"
                               THEN Wire(vals[c]) ELSE <<>>]]

\* Worksheet.append_row(values): a new row after the last row of the table
AppendCells(sh, vals) ==
    Append(sh, [c \in 1..Len(sh[1]) |->
                   IF c <= Len(vals) /\ vals[c].k # "none"
                   THEN Wire(vals[c]) ELSE <<>>])

\* append_row: ws.append_row(list(row_values))
append_row(sh, row_values, up) ==
    IF ~up THEN Raised("TransportError", sh)
    ELSE IF ~Serialisable(row_values) THEN Raised("InvalidJSONError", sh)
    ELSE Returned(AppendCells(sh, row_values))

---------------------------------------------------------------------------
(* search_inventory.py: search *)

\* What a call leaves when it raises instead of returning a DataFrame
Exc(name) == [exc |-> name]
IsDf(r) == "rows" \in DOMAIN r

RECURSIVE TruePositions(_, _)
\* The positions 1..n at which mask holds, in increasing order
TruePositions(mask, n) ==
    IF n = 0 THEN <<>>
    ELSE IF mask[n] THEN Append(TruePositions(mask, n - 1), n)
         ELSE TruePositions(mask, n - 1)

\* df[mask]: the rows at which mask holds, each with its index label
BoolIndex(df, mask) ==
    LET pos == TruePositions(mask, Len(df.rows))
    IN  [columns |-> df.columns,
         index |-> [k \in 1..Len(pos) |-> df.index[pos[k]]],
         rows |-> [k \in 1..Len(pos) |-> df.rows[pos[k]]]]

\* col_map = {c.lower(): c for c in df.columns}
ColMapHas(df, key) == \E c \in 1..Len(df.columns) : Lower(df.columns[c]) = key
ColMapGet(df, key) ==
    CHOOSE c \in 1..Len(df.columns) :
        /\ Lower(df.columns[c]) = key
        /\ \A d \in (c + 1)..Len(df.columns) : Lower(df.columns[d]) # key

\* display: what it prints.  An empty result prints a message and no
\* table; otherwise the columns are those of `columns` found in the table
\* by a look-up on the lower-cased name, under the name the table gives
\* them, and all columns of the table if none is found.
display(df, columns) ==
    IF df.rows = <<>>
    THEN [text |-> "No matching items found.", cols |-> <<>>]
    ELSE LET In(col) == ColMapHas(df, Lower(col))
             found == SelectSeq(columns, In)
             picked == [i \in 1..Len(found) |->
                           df.columns[ColMapGet(df, Lower(found[i]))]]
         IN  [text |-> "grid",
              cols |-> IF picked = <<>> THEN df.columns ELSE picked]

\* The characters re.escape puts a backslash before, as far as the queries
\* of the model use them
SpecialChars == {"(", ")", ".", " ", "\\"}

\* A faulty variant of re_escape: the query handed on as it is.
re_escape_not(t) == t

RECURSIVE re_escape(_)
\* re.escape(query): a backslash before every special character
re_escape(t) ==
    IF t = <<>> THEN <<>>
    ELSE (IF Head(t) \in SpecialChars THEN <<"\\", Head(t)>> ELSE <<Head(t)>>)
            \o re_escape(Tail(t))

ReLit(c) == [any |-> FALSE, c |-> c]
ReAny == [any |-> TRUE, c |-> "."]
ReError == [err |-> TRUE, atoms |-> <<>>]

RECURSIVE ReParse(_, _)
\* The pattern as the regex engine reads it: a backslash makes the next
\* character a literal, "." stands for any character, "(" and ")" group
\* and must balance (depth: the groups open so far); anything else is a
\* literal.  err: the pattern does not compile (re.error).
ReParse(p, depth) ==
    IF p = <<>> THEN [err |-> depth # 0, atoms |-> <<>>]
    ELSE LET c == Head(p)
             then(atom, rest) ==
                 LET r == ReParse(rest, depth)
                 IN  [err |-> r.err, atoms |-> <<atom>> \o r.atoms]
         IN  CASE c = "\\" ->
                    IF Len(p) = 1 THEN ReError
                    ELSE then(ReLit(p[2]), SubSeq(p, 3, Len(p)))
               [] c = "(" -> ReParse(Tail(p), depth + 1)
               [] c = ")" -> IF depth = 0 THEN ReError
                             ELSE ReParse(Tail(p), depth - 1)
               [] c = "." -> then(ReAny, Tail(p))
               [] OTHER -> then(ReLit(c), Tail(p))

\* Series.str.contains(pat, case=False, regex=True) on one cell text: the
\* compiled pattern matches somewhere in the text, letter case ignored.
ReContains(hay, pat) ==
    LET atoms == ReParse(pat, 0).atoms
    IN  \E i \in 0..(Len(hay) - Len(atoms)) :
            \A j \in 1..Len(atoms) :
                atoms[j].any \/ LowerChar(atoms[j].c) = LowerChar(hay[i + j])

\* A faulty variant of Mask: with no field only the first column is tested.
Mask_first_column(df, q, fld) ==
    LET safe_query == re_escape(q.v)
        c == IF Truthy(fld) THEN ColMapGet(df, Lower(fld.v)) ELSE 1
    IN  [i \in 1..Len(df.rows) |->
            ReContains(AsStr(df.rows[i][c]), safe_query)]

\* The boolean mask search computes: one column when field is given,
\* mask.any(axis=1) over all columns otherwise.
Mask(df, q, fld) ==
    LET safe_query == re_escape(q.v)
    IN  IF Truthy(fld)
        THEN LET c == ColMapGet(df, Lower(fld.v))
             IN  [i \in 1..Len(df.rows) |->
                     ReContains(AsStr(df.rows[i][c]), safe_query)]
        ELSE [i \in 1..Len(df.rows) |->
                 \E c \in 1..Len(df.columns) :
                     ReContains(AsStr(df.rows[i][c]), safe_query)]

\* A faulty variant of search: the result renumbered (reset_index(drop=True)).
search_reset_index(df, q, fld) ==
    IF q.k # "s" THEN Exc("TypeError")
    ELSE IF Truthy(fld) /\ ~ColMapHas(df, Lower(fld.v)) THEN Exc("SystemExit")
    ELSE IF ReParse(re_escape(q.v), 0).err THEN Exc("re.error")
    ELSE LET r == BoolIndex(df, Mask(df, q, fld))
         IN  [r EXCEPT !.index = RangeIndex(Len(r.rows))]

\* A faulty variant of search: the matches returned last row first.
search_reversed(df, q, fld) ==
    IF q.k # "s" THEN Exc("TypeError")
    ELSE IF Truthy(fld) /\ ~ColMapHas(df, Lower(fld.v)) THEN Exc("SystemExit")
    ELSE IF ReParse(re_escape(q.v), 0).err THEN Exc("re.error")
    ELSE LET r == BoolIndex(df, Mask(df, q, fld))
             n == Len(r.rows)
         IN  [columns |-> r.columns,
              index |-> [k \in 1..n |-> r.index[n + 1 - k]],
              rows |-> [k \in 1..n |-> r.rows[n + 1 - k]]]

\* search(df, query, field): re.escape(query) raises TypeError unless query
\* is a str; an unknown field ends in sys.exit; else df[mask].
search(df, q, fld) ==
    IF q.k # "s" THEN Exc("TypeError")
    ELSE IF Truthy(fld) /\ ~ColMapHas(df, Lower(fld.v)) THEN Exc("SystemExit")
    ELSE IF ReParse(re_escape(q.v), 0).err THEN Exc("re.error")
    ELSE BoolIndex(df, Mask(df, q, fld))

---------------------------------------------------------------------------
(* dash_inventory.py: columns, DataFrame helpers *)

\* The columns the callbacks name, in the order upload_row writes them
ColName == <<"n","a","m","e">>
ColQr == <<"q","r"," ","c","o","d","e">>
ColPicture == <<"p","i","c","t","u","r","e">>
ColShelf == <<"p","i","c","t","u","r","e"," ","b","y"," ","s","h","e","l","f">>
ColGreen == <<"i","s"," ","i","t"," ","g","r","e","e","n","?">>
ColNotes == <<"n","o","t","e","s">>
ColVisible == <<"V","I","S","I","B","L","E","/"," ","N","O","T">>
\* A column of the sheet that no edit field covers
ColQty == <<"q","t","y">>

ModalColumns ==
    <<ColName, ColQr, ColPicture, ColShelf, ColGreen, ColNotes, ColVisible>>

\* The yes/no columns, as upload_row and _inline_save list them
BoolColumns == <<ColPicture, ColShelf, ColGreen, ColVisible>>

\* DEFAULT_COLUMNS: "qr code" and six Hebrew labels, each Hebrew label
\* written here as one opaque character (lines 37 to 42).
DEFAULT_COLUMNS ==
    <<ColQr, <<"he37">>, <<"he38">>, <<"he39">>, <<"he40">>, <<"he41">>,
      <<"he42">>>>

HasCol(columns, name) == \E c \in 1..Len(columns) : columns[c] = name
ColPos(columns, name) == CHOOSE c \in 1..Len(columns) : columns[c] = name

\* cols = [c for c in DEFAULT_COLUMNS if c in result.columns], or all
DisplayCols(columns) ==
    LET In(c) == HasCol(columns, c)
        cols == SelectSeq(DEFAULT_COLUMNS, In)
    IN  IF cols = <<>> THEN columns ELSE cols

\* A value as the browser holds it and sends it back: NaN becomes null, a
\* float with an integral value becomes the integer.
ToJson(x) ==
    CASE x.k = "nan" -> None
      [] x.k = "f" -> PyInt(x.v)
      [] OTHER -> x

\* df[cols].to_dict("records"), as the browser holds it
Records(df, cols) ==
    [i \in 1..Len(df.rows) |->
        [c \in Range(cols) |-> ToJson(df.rows[i][ColPos(df.columns, c)])]]

\* df_to_json / json_to_df: orient="split" keeps columns, index and data
df_to_json(df) == [columns |-> df.columns, index |-> df.index, data |-> df.rows]
json_to_df(data) ==
    IF data = None THEN None
    ELSE [columns |-> data.columns, index |-> data.index, rows |-> data.data]

IsNumeric(kinds) == kinds \subseteq {"n", "f", "nan"}

\* The position (1-based) of the row that carries an index label
LabelPos(df, label) == CHOOSE i \in 1..Len(df.index) : df.index[i] = label

\* df.at[label, col] = val: None set into a numeric column is stored as
\* NaN; a numeric column that holds a NaN or a float is float64 as a whole;
\* a column the frame lacks is added, NaN in the other rows.
SetAt(df, label, col, val) ==
    IF ~HasCol(df.columns, col)
    THEN [columns |-> Append(df.columns, col),
          index |-> df.index,
          rows |-> [i \in 1..Len(df.rows) |->
                      Append(df.rows[i],
                             IF i = LabelPos(df, label) THEN val ELSE NaN)]]
    ELSE
    LET c == ColPos(df.columns, col)
        old == {df.rows[i][c].k : i \in 1..Len(df.rows)}
        v == IF val.k = "none" /\ IsNumeric(old) THEN NaN ELSE val
        set == [df EXCEPT !.rows[LabelPos(df, label)][c] = v]
        new == {set.rows[i][c].k : i \in 1..Len(set.rows)}
        float == IsNumeric(new) /\ new # {"n"}
    IN  [set EXCEPT !.rows =
            [i \in 1..Len(set.rows) |->
                [set.rows[i] EXCEPT ![c] =
                    IF float /\ @.k = "n" THEN PyFloat(@.v) ELSE @]]]

\* str(v) if hasattr(v, 'dtype') or isinstance(v, (int, float)) else v
StrIfNumber(x) == IF x.k \in {"n", "f", "nan"} THEN PyStr(AsStr(x)) ELSE x

---------------------------------------------------------------------------
(* dash_inventory.py: the callbacks as functions of what they read *)

NoCall == [op |-> "none", idx |-> 0, vals |-> <<>>, ok |-> FALSE]
NoTable == [data |-> <<>>, cols |-> <<>>, idx |-> <<>>]

\* result[cols].to_dict("records") with its columns; idx is result.index
ShowTable(result) ==
    LET cols == DisplayCols(result.columns)
    IN  [data |-> Records(result, cols), cols |-> cols, idx |-> result.index]

\* do_search: the table to show (cur, the table shown, when search raises)
do_search(q, fld, data, cur) ==
    IF ~Truthy(q) THEN NoTable
    ELSE LET df == json_to_df(data)
         IN  IF df = None THEN NoTable
             ELSE LET result == search(df, q, fld)
                  IN  IF IsDf(result) THEN ShowTable(result) ELSE cur

\* _refresh_table: runs when data-store changes; PreventUpdate and a raise
\* leave the table shown (cur)
_refresh_table(data, q, fld, cur) ==
    LET df == json_to_df(data)
    IN  IF df = None THEN cur
        ELSE LET result == IF Truthy(q) THEN search(df, q, fld) ELSE df
             IN  IF IsDf(result) THEN ShowTable(result) ELSE cur

\* row.get(col) of a row of df
RowGet(df, row, col) ==
    IF HasCol(df.columns, col) THEN row[ColPos(df.columns, col)] ELSE None

\* _open_modal on the Edit button: the fields are read from
\* df.iloc[selected_rows[0]] of the data-store snapshot
ModalFieldsOf(df, K) ==
    [c \in Range(ModalColumns) |-> ToJson(RowGet(df, df.rows[K + 1], c))]

\* A faulty variant of SaveRowIdx: the view position taken for the sheet position.
SaveRowIdx_view_position(current_view, K) == K

\* row_idx = current_view.index[selected_rows[0]]
SaveRowIdx(current_view, K) == current_view.index[K + 1]

RECURSIVE ApplyEdits(_, _, _, _)
\* df.at[row_idx, col] = value, for the seven edit fields in order
ApplyEdits(df, row_idx, fields, n) ==
    IF n = 0 THEN df
    ELSE SetAt(ApplyEdits(df, row_idx, fields, n - 1), row_idx,
               ModalColumns[n], fields[ModalColumns[n]])

\* _save_row up to the write: what it fetched, the row it chose, the edited
\* copy and the values it hands to update_row; err when it raises before.
SavePlan(sh, q, fld, K, fields) ==
    LET df_all == get_df(sh)
        current_view == IF Truthy(q) THEN search(df_all, q, fld) ELSE df_all
    IN  IF ~IsDf(current_view) THEN [err |-> "SystemExit"]
        ELSE IF K >= Len(current_view.index) THEN [err |-> "IndexError"]
        ELSE LET row_idx == SaveRowIdx(current_view, K)
                 df == ApplyEdits(df_all, row_idx, fields, Len(ModalColumns))
                 row == df.rows[row_idx + 1]
             IN  [err |-> "",
                  row_idx |-> row_idx,
                  df |-> df,
                  row_vals |-> [c \in 1..Len(row) |-> StrIfNumber(row[c])]]

\* The values _inline_save accepts in a yes/no column
InlineAllowed == {PyStr(<<"Y","e","s">>), PyStr(<<"N","o">>), PyStr(Yes),
                  PyStr(No)}

\* The yes/no columns of new_row that fail the check, in the loop's order
InlineInvalid(new_row) ==
    LET Bad(c) == c \in DOMAIN new_row /\ new_row[c] \notin InlineAllowed
    IN  SelectSeq(BoolColumns, Bad)

\* row_idx = idx: the position of the edited row in the displayed table
InlineRowIdx(idx) == idx

RECURSIVE SetLoc(_, _, _, _)
\* df_all.loc[row_idx, new_row.keys()] = list(new_row.values())
SetLoc(df, row_idx, new_row, cols) ==
    IF cols = <<>> THEN df
    ELSE SetLoc(SetAt(df, row_idx, Head(cols), new_row[Head(cols)]),
                row_idx, new_row, Tail(cols))

\* .loc on a label the frame lacks adds the row, NaN in every column
Enlarge(df, label) ==
    IF \E i \in 1..Len(df.index) : df.index[i] = label THEN df
    ELSE [columns |-> df.columns,
          index |-> Append(df.index, label),
          rows |-> Append(df.rows, [c \in 1..Len(df.columns) |-> NaN])]

\* _inline_save from the first differing row idx to the write: the row it
\* chose and the values it hands to update_row
InlinePlan(sh, idx, new_row, cols) ==
    LET df_all == get_df(sh)
        row_idx == InlineRowIdx(idx)
        df == SetLoc(Enlarge(df_all, row_idx), row_idx, new_row, cols)
    IN  [row_idx |-> row_idx, row_vals |-> df.rows[LabelPos(df, row_idx)]]

\* v = (val or "").strip().lower()
NormBool(val) == IF Truthy(val) THEN Lower(Strip(val.v)) ELSE <<>>

\* allowed_set = {"yes", "no", ""}
allowed_set == {Yes, No, <<>>}

\* A faulty variant of BoolFieldOk: nothing is checked.
BoolFieldOk_unchecked(val) == TRUE

\* v not in allowed_set ends upload_row with the message
BoolFieldOk(val) == NormBool(val) \in allowed_set

FormBools(form) == <<form.picture, form.shelfpic, form.green, form.visible>>

\* new_row of upload_row
UploadNewRow(form) ==
    <<form.name, form.qr, PyStr(NormBool(form.picture)),
      PyStr(NormBool(form.shelfpic)), PyStr(NormBool(form.green)),
      IF Truthy(form.notes) THEN form.notes ELSE PyStr(<<>>),
      PyStr(NormBool(form.visible))>>

RECURSIVE StripZeros(_)
StripZeros(t) ==
    IF Len(t) > 1 /\ Head(t) = "0" THEN StripZeros(Tail(t)) ELSE t

\* value_input_option="USER_ENTERED": the sheet takes the text as if typed
\* into a cell: a leading apostrophe marks text and is not stored, a text
\* of digits is a number and is stored without its leading zeros.
UserEntered(t) ==
    IF t # <<>> /\ Head(t) = "'" THEN Tail(t)
    ELSE IF t # <<>> /\ \A i \in 1..Len(t) : t[i] \in Digits THEN StripZeros(t)
    ELSE t

EnteredRow(vals) ==
    [i \in 1..Len(vals) |->
        IF vals[i].k = "s" THEN PyStr(UserEntered(vals[i].v)) ELSE vals[i]]

\* upload_row: its message, and the append it made if it made one
upload_row(sh, form, up) ==
    IF ~(Truthy(form.name) /\ Truthy(form.qr))
    THEN [status |-> "required", call |-> NoCall, sheet |-> sh]
    ELSE IF ~up
    THEN [status |-> "failed", call |-> NoCall, sheet |-> sh]
    ELSE IF \E i \in 1..4 : ~BoolFieldOk(FormBools(form)[i])
    THEN [status |-> "must be Yes or No", call |-> NoCall, sheet |-> sh]
    ELSE [status |-> "uploaded",
          call |-> [op |-> "append_row", idx |-> Len(sh) - 1,
                    vals |-> UploadNewRow(form), ok |-> TRUE],
          sheet |-> AppendCells(sh, EnteredRow(UploadNewRow(form)))]

---------------------------------------------------------------------------
(* Bounded inputs *)

InvHeader == ModalColumns \o <<ColQty>>

\* Sheet rows: name, qr code, picture, picture by shelf, is it green?,
\* notes, VISIBLE/ NOT, qty
InvRows ==
    <<<<Widget, <<"5">>, Yes, Yes, No, TwoWords, Yes, <<"5">>>>,
      <<Gadget, <<"0">>, Maybe, No, <<>>, <<>>, No, <<>>>>,
      <<TwoWords, <<"7">>, No, No, No, <<>>, No, <<"7">>>>>>

\* The sheets a behaviour may start from: the first n of the rows above
InvSheets ==
    {<<InvHeader>> \o SubSeq(InvRows, 1, n) :
        n \in 0..(IF MaxRows < Len(InvRows) THEN MaxRows ELSE Len(InvRows))}

DashQueries == {PyStr(<<>>), PyStr(<<"g","a">>), PyStr(<<" ">>)}
DashFields == {None, PyStr(ColName)}

\* What the user may type or pick in the edit modal
EditChoices == {<<ColQr, PyStr(<<"7">>)>>}

\* What the user may type into a cell of the result table
InlineValues == {PyStr(<<"7">>)}

\* The Add New Item form: every combination of these field values
BoolInputs == {None, PyStr(<<" ","Y","e","s"," ">>), PyStr(Maybe), PyStr(<<" ">>)}
UploadForms ==
    [name : {None, PyStr(Gadget)}, qr : {PyStr(<<"7">>)},
     picture : BoolInputs, shelfpic : BoolInputs,
     green : {PyStr(No), PyStr(Maybe)}, notes : {None},
     visible : {PyStr(<<"N","O">>), PyStr(Maybe)}]

\* Forms for the rows the form appends: qr codes with and without a
\* leading zero
AppendForms ==
    [name : {None, PyStr(Gadget)}, qr : {PyStr(<<"7">>), PyStr(<<"0","7">>)},
     picture : {None, PyStr(<<" ","Y","e","s"," ">>)}, shelfpic : {None},
     green : {PyStr(No), PyStr(Maybe)}, notes : {None, PyStr(TwoWords)},
     visible : {PyStr(<<"N","O">>)}]

---------------------------------------------------------------------------
(* The dashboard: state after the layout is built, and the callbacks *)

\* What the last callback that reached the sheet did: its name, the view
\* position it was given, its adapter call, the sheet before it, the
\* exception it caught or the reason it stopped, and the values submitted.
Evt(h, K, call, before, err, arg) ==
    [h |-> h, K |-> K, call |-> call, before |-> before, err |-> err,
     arg |-> arg]

\* the edit fields before the modal was ever opened
NoFields == [c \in Range(ModalColumns) |-> None]

\* no callback that reaches the sheet ran in the last step
NoEvt == Evt("none", -1, NoCall, <<>>, "", <<>>)

\* the undo toast as the layout builds it: closed, the interval disabled
\* and not yet fired.  since counts the ticks since the last delete or
\* restock click; armed says that such a click opened the toast and that
\* since then Undo was not clicked and fewer than 50 ticks went by.
NoToast == [is_open |-> FALSE, disabled |-> TRUE, n_intervals |-> 0,
            since |-> 0, armed |-> FALSE]

\* a client that has neither fetched the table nor written to it
NoClient == [pc |-> "idle"]

Clients == {"a", "b"}

NoClients == [c \in Clients |-> NoClient]

DashInit ==
    /\ store = None
    /\ query = None
    /\ field = None
    /\ tableData = <<>>
    /\ tableCols = <<>>
    /\ tableIdx = <<>>
    /\ selected = <<>>
    /\ modalOpen = FALSE
    /\ modal = NoFields
    /\ status = ""
    /\ lastEvt = NoEvt

SearchIdle ==
    /\ sDf = [columns |-> <<>>, index |-> <<>>, rows |-> <<>>]
    /\ sField = None
    /\ sPc = "idle"
    /\ sOut = [via |-> "none"]

Init ==
    /\ sheet \in InvSheets
    /\ aCall = NoCall
    /\ nWrites = 0
    /\ clients = NoClients
    /\ toast = NoToast
    /\ auditLog = <<>>
    /\ SearchIdle
    /\ DashInit

Shown == [data |-> tableData, cols |-> tableCols, idx |-> tableIdx]

SetTable(t) ==
    /\ tableData' = t.data
    /\ tableCols' = t.cols
    /\ tableIdx' = t.idx

\* load-btn: load_sheet, then _refresh_table on the new data-store
LoadSheet(up) ==
    /\ IF up
       THEN LET data == df_to_json(get_df(sheet))
            IN  /\ store' = data
                /\ SetTable(_refresh_table(data, query, field, Shown))
       ELSE UNCHANGED <<store, tableData, tableCols, tableIdx>>
    /\ lastEvt' = NoEvt
    /\ UNCHANGED <<sheet, aCall, clients, nWrites, searchVars, query, field, selected,
                   modalOpen, modal, status, uiVars>>

\* query-input changes: do_search
TypeQuery(q) ==
    /\ ~modalOpen
    /\ q # query
    /\ query' = q
    /\ SetTable(do_search(q, field, store, Shown))
    /\ lastEvt' = NoEvt
    /\ UNCHANGED <<sheet, aCall, clients, nWrites, searchVars, store, field, selected,
                   modalOpen, modal, status, uiVars>>

\* field-dropdown changes: do_search
PickField(f) ==
    /\ ~modalOpen
    /\ f # field
    /\ field' = f
    /\ SetTable(do_search(query, f, store, Shown))
    /\ lastEvt' = NoEvt
    /\ UNCHANGED <<sheet, aCall, clients, nWrites, searchVars, store, query, selected,
                   modalOpen, modal, status, uiVars>>

\* the user ticks the row at view position K of the result table
SelectRow(K) ==
    /\ ~modalOpen
    /\ K \in 0..(Len(tableData) - 1)
    /\ selected # <<K>>
    /\ selected' = <<K>>
    /\ lastEvt' = NoEvt
    /\ UNCHANGED <<sheet, aCall, clients, nWrites, searchVars, store, query, field,
                   tableData, tableCols, tableIdx, modalOpen, modal, status, uiVars>>

\* edit-btn (enabled while a row is selected): _open_modal
OpenModal ==
    /\ ~modalOpen
    /\ selected # <<>>
    /\ LET df == json_to_df(store)
       IN  IF df = None
           THEN UNCHANGED <<modalOpen, modal>>
           ELSE IF selected[1] >= Len(df.rows)
           THEN UNCHANGED <<modalOpen, modal>>
           ELSE /\ modalOpen' = TRUE
                /\ modal' = ModalFieldsOf(df, selected[1])
    /\ lastEvt' = NoEvt
    /\ UNCHANGED <<sheet, aCall, clients, nWrites, searchVars, store, query, field,
                   tableData, tableCols, tableIdx, selected, status, uiVars>>

\* cancel-btn: _open_modal closes the modal.  The fields of a closed modal
\* are read by nothing (Save sits inside the modal) and the next Edit sets
\* all seven, so the model forgets them when the modal closes.
CancelModal ==
    /\ modalOpen
    /\ modalOpen' = FALSE
    /\ modal' = NoFields
    /\ lastEvt' = NoEvt
    /\ UNCHANGED <<sheet, aCall, clients, nWrites, searchVars, store, query, field,
                   tableData, tableCols, tableIdx, selected, status, uiVars>>

\* the user changes one field of the open modal
EditField(c, v) ==
    /\ modalOpen
    /\ modal[c] # v
    /\ modal' = [modal EXCEPT ![c] = v]
    /\ lastEvt' = NoEvt
    /\ UNCHANGED <<sheet, aCall, clients, nWrites, searchVars, store, query, field,
                   tableData, tableCols, tableIdx, selected, modalOpen, status, uiVars>>

\* save-btn: _save_row, then _refresh_table on the new data-store.
\* readUp: get_df answers; writeUp: update_row's request answers.
SaveRow(readUp, writeUp) ==
    /\ modalOpen
    /\ selected # <<>>
    /\ nWrites < MaxWrites
    /\ LET plan == IF readUp
                   THEN SavePlan(sheet, query, field, selected[1], modal)
                   ELSE [err |-> "TransportError"]
       IN  IF plan.err # ""
           THEN /\ lastEvt' = Evt("_save_row", selected[1], NoCall, sheet, plan.err,
                                 modal)
                /\ UNCHANGED <<sheet, nWrites, store, tableData, tableCols,
                               tableIdx, selected, modalOpen, modal>>
           ELSE LET res == update_row(sheet, plan.row_idx, plan.row_vals, writeUp)
                    data == df_to_json(plan.df)
                IN  /\ sheet' = res.sheet
                    /\ nWrites' = nWrites + 1
                    /\ store' = data
                    /\ SetTable(_refresh_table(data, query, field, Shown))
                    /\ selected' = <<>>
                    /\ modalOpen' = FALSE
                    /\ modal' = NoFields
                    /\ lastEvt' = Evt("_save_row", selected[1],
                                      [op |-> "update_row", idx |-> plan.row_idx,
                                       vals |-> plan.row_vals, ok |-> res.ok],
                                      sheet, res.err, modal)
    /\ UNCHANGED <<aCall, clients, searchVars, query, field, status, uiVars>>

\* the user edits cell c of the displayed row K: _inline_save
InlineSave(K, c, v, readUp, writeUp) ==
    /\ ~modalOpen
    /\ nWrites < MaxWrites
    /\ K \in 0..(Len(tableData) - 1)
    /\ c \in Range(tableCols)
    /\ tableData[K + 1][c] # v
    /\ LET new_data == [tableData EXCEPT ![K + 1][c] = v]
           bad == InlineInvalid(new_data[K + 1])
       IN  IF bad # <<>>
           THEN /\ tableData' = [new_data EXCEPT ![K + 1][Head(bad)] =
                                    tableData[K + 1][Head(bad)]]
                /\ lastEvt' = Evt("_inline_save", K, NoCall, sheet, "invalid",
                                 new_data[K + 1])
                /\ UNCHANGED <<sheet, nWrites>>
           ELSE IF ~readUp
           THEN /\ tableData' = new_data
                /\ lastEvt' = Evt("_inline_save", K, NoCall, sheet,
                                 "TransportError", new_data[K + 1])
                /\ UNCHANGED <<sheet, nWrites>>
           ELSE LET plan == InlinePlan(sheet, K, new_data[K + 1], tableCols)
                    res == update_row(sheet, plan.row_idx, plan.row_vals, writeUp)
                IN  /\ tableData' = new_data
                    /\ sheet' = res.sheet
                    /\ nWrites' = nWrites + 1
                    /\ lastEvt' = Evt("_inline_save", K,
                                      [op |-> "update_row", idx |-> plan.row_idx,
                                       vals |-> plan.row_vals, ok |-> res.ok],
                                      sheet, res.err, new_data[K + 1])
    /\ UNCHANGED <<aCall, clients, searchVars, store, query, field, tableCols, tableIdx,
                   selected, modalOpen, modal, status, uiVars>>

\* upload-btn: upload_row
UploadRow(form, up) ==
    /\ nWrites < MaxWrites
    /\ LET r == upload_row(sheet, form, up)
       IN  /\ sheet' = r.sheet
           /\ status' = r.status
           /\ nWrites' = IF r.call.op = "append_row" THEN nWrites + 1 ELSE nWrites
           /\ lastEvt' = Evt("upload_row", -1, r.call, sheet, "", form)
    /\ UNCHANGED <<aCall, clients, searchVars, store, query, field, tableData, tableCols,
                   tableIdx, selected, modalOpen, modal, uiVars>>

Next ==
    \/ \E up \in BOOLEAN : LoadSheet(up)
    \/ \E q \in DashQueries : TypeQuery(q)
    \/ \E f \in DashFields : PickField(f)
    \/ \E K \in 0..MaxRows : SelectRow(K)
    \/ OpenModal
    \/ CancelModal
    \/ \E e \in EditChoices : EditField(e[1], e[2])
    \/ \E readUp, writeUp \in BOOLEAN : SaveRow(readUp, writeUp)
    \/ \E K \in 0..MaxRows, c \in {ColQr}, v \in InlineValues,
          readUp, writeUp \in BOOLEAN : InlineSave(K, c, v, readUp, writeUp)

Spec == Init /\ [][Next]_vars

\* The Add New Item form on its own
NextUpload == \E form \in UploadForms, up \in BOOLEAN : UploadRow(form, up)

SpecUpload == Init /\ [][NextUpload]_vars

---------------------------------------------------------------------------
(* dash_inventory.py: the undo toast and its interval *)

\* _handle_undo closes the toast at the tick with n_intervals >= 50
ToastTicks == 50

\* delete-btn / restock-btn (enabled while a row is selected): _show_toast
ShowToast(btn) ==
    /\ selected # <<>>
    /\ toast' = [toast EXCEPT !.is_open = TRUE, !.disabled = FALSE,
                              !.since = 0, !.armed = TRUE]
    /\ lastEvt' = Evt("_show_toast", -1, NoCall, sheet, "", btn)
    /\ UNCHANGED <<sheet, aCall, clients, nWrites, searchVars, store, query,
                   field, tableData, tableCols, tableIdx, selected,
                   modalOpen, modal, status, auditLog>>

\* _handle_undo on a tick: ticks is n_intervals, which the interval has
\* just raised by one and which nothing sets back
IntervalFired(t) ==
    IF t.n_intervals + 1 >= ToastTicks /\ t.is_open
    THEN [is_open |-> FALSE, disabled |-> TRUE]
    ELSE [is_open |-> t.is_open, disabled |-> t.disabled]

\* undo-interval fires (it does so only while it is not disabled)
Tick ==
    /\ ~toast.disabled
    /\ toast.n_intervals < MaxTicks
    /\ LET out == IntervalFired(toast)
       IN  toast' = [is_open |-> out.is_open, disabled |-> out.disabled,
                     n_intervals |-> toast.n_intervals + 1,
                     since |-> IF toast.since < ToastTicks
                               THEN toast.since + 1 ELSE toast.since,
                     armed |-> toast.armed /\ toast.since + 1 < ToastTicks]
    /\ lastEvt' = NoEvt
    /\ UNCHANGED <<sheet, aCall, clients, nWrites, searchVars, store, query,
                   field, tableData, tableCols, tableIdx, selected,
                   modalOpen, modal, status, auditLog>>

\* undo-btn (inside the toast): _handle_undo
Undo ==
    /\ toast.is_open
    /\ toast' = [toast EXCEPT !.is_open = FALSE, !.disabled = TRUE,
                              !.armed = FALSE]
    /\ lastEvt' = NoEvt
    /\ UNCHANGED <<sheet, aCall, clients, nWrites, searchVars, store, query,
                   field, tableData, tableCols, tableIdx, selected,
                   modalOpen, modal, status, auditLog>>

NextToast ==
    \/ LoadSheet(TRUE)
    \/ \E K \in 0..MaxRows : SelectRow(K)
    \/ \E btn \in {"delete-btn", "restock-btn"} : ShowToast(btn)
    \/ Tick
    \/ Undo

SpecToast == Init /\ [][NextToast]_vars

---------------------------------------------------------------------------
(* search_inventory.py: search called on a loaded table, and the command   *)
(* line (main, interactive_loop)                                           *)

SeqsUpTo(S, n) == UNION {[1..k -> S] : k \in 0..n}

SearchHeader == <<ColName, ColQty>>

SearchRows ==
    {<<Widget, <<"5">>>>, <<Gadget, <<"0">>>>, <<TwoWords, <<>>>>,
     <<<<>>, <<"7">>>>, <<AParen1, <<"5">>>>, <<APlain1, <<"0">>>>}

\* A sheet whose two column names differ in letter case only
ColNameCap == <<"N","a","m","e">>
CapHeader == <<ColNameCap, ColName>>
CapRows == {<<Widget, Gadget>>, <<Gadget, Widget>>}

\* Sheets with the display column "qr code", spelt so or with capitals
ColQrCap == <<"Q","R"," ","c","o","d","e">>
QrHeader == <<ColQr, ColName>>
QrCapHeader == <<ColQrCap, ColName>>
QrRows == {<<<<"7">>, Widget>>, <<<<"5">>, Gadget>>}

SearchSheets ==
    {<<SearchHeader>> \o rows : rows \in SeqsUpTo(SearchRows, MaxRows)}
        \cup {<<CapHeader>> \o rows : rows \in SeqsUpTo(CapRows, MaxRows)}
        \cup {<<h>> \o rows : h \in {QrHeader, QrCapHeader},
                               rows \in SeqsUpTo(QrRows, MaxRows)}

SearchQueries ==
    {None, PyStr(<<>>), PyStr(<<" ">>), PyStr(<<" "," ">>),
     PyStr(<<"w","i","d">>), PyStr(<<"g">>), PyStr(<<"5">>),
     PyStr(<<"n">>), PyStr(<<"n","a","n">>), PyStr(AParen1), PyStr(Gadgets)}

SearchFields ==
    {None, PyStr(ColName), PyStr(ColNameCap), PyStr(ColQty),
     PyStr(<<"s","k","u">>)}

\* What the user may type at the "Search> " prompt
PromptLines ==
    {<<>>, <<" ">>, <<" ","w","i","d"," ">>, <<"g">>, <<"Q","u","i","t">>}

ExitWords == {<<"e","x","i","t">>, <<"q","u","i","t">>, <<"q">>}

NoResult == [none |-> TRUE]

InitSearch ==
    /\ sheet = <<InvHeader>>
    /\ aCall = NoCall
    /\ nWrites = 0
    /\ clients = NoClients
    /\ toast = NoToast
    /\ auditLog = <<>>
    /\ DashInit
    /\ sDf \in {get_df(sh) : sh \in SearchSheets}
    /\ sField \in SearchFields
    /\ sPc = "start"
    /\ sOut = [via |-> "none"]

\* search(df, query, field) called on the loaded table.  search is a
\* function of its arguments and the table never changes, so one call per
\* behaviour shows all it can do.
SearchCall(q, f) ==
    /\ sPc = "start"
    /\ sOut.via = "none"
    /\ sOut' = [via |-> "search", query |-> q, field |-> f,
                res |-> search(sDf, q, f)]
    /\ UNCHANGED <<sheet, aCall, clients, nWrites, dashVars, sDf, sField, sPc, uiVars>>

\* display(result, DEFAULT_COLUMNS) after a search that returned
Printed(out) ==
    IF IsDf(out.res)
    THEN [f \in DOMAIN out \cup {"shown"} |->
             IF f = "shown" THEN display(out.res, DEFAULT_COLUMNS) ELSE out[f]]
    ELSE out

\* main: args.query given runs one search, else the prompt loop starts
CliMain(q) ==
    /\ sPc = "start"
    /\ IF Truthy(q)
       THEN /\ sOut' = Printed([via |-> "main", query |-> q,
                                field |-> sField,
                                res |-> search(sDf, q, sField)])
            /\ sPc' = "done"
       ELSE /\ sOut' = [via |-> "main", query |-> q, field |-> sField,
                        res |-> NoResult]
            /\ sPc' = "loop"
    /\ UNCHANGED <<sheet, aCall, clients, nWrites, dashVars, sDf, sField, uiVars>>

\* interactive_loop: one line read at the prompt
InteractiveLoop(line) ==
    /\ sPc = "loop"
    /\ LET q == Strip(line)
       IN  IF Lower(q) \in ExitWords
           THEN /\ sPc' = "done"
                /\ sOut' = [via |-> "loop", line |-> line, query |-> PyStr(q),
                            field |-> sField, res |-> NoResult]
           ELSE IF q = <<>>
           THEN /\ sPc' = sPc
                /\ sOut' = [via |-> "loop", line |-> line, query |-> PyStr(q),
                            field |-> sField, res |-> NoResult]
           ELSE LET res == search(sDf, PyStr(q), sField)
                IN  /\ sPc' = IF IsDf(res) THEN sPc ELSE "done"
                    /\ sOut' = Printed([via |-> "loop", line |-> line,
                                        query |-> PyStr(q),
                                        field |-> sField, res |-> res])
    /\ UNCHANGED <<sheet, aCall, clients, nWrites, dashVars, sDf, sField, uiVars>>

\* interactive_loop: end of input at the prompt
CliEof ==
    /\ sPc = "loop"
    /\ sPc' = "done"
    /\ UNCHANGED <<sheet, aCall, clients, nWrites, dashVars, sDf, sField, sOut, uiVars>>

NextSearch ==
    \/ \E q \in SearchQueries, f \in SearchFields : SearchCall(q, f)
    \/ \E q \in SearchQueries : CliMain(q)
    \/ \E line \in PromptLines : InteractiveLoop(line)
    \/ CliEof

SpecSearch == InitSearch /\ [][NextSearch]_vars

---------------------------------------------------------------------------
(* sheets.py: the three calls of the adapter against one worksheet *)

\* Row values a caller may hand to update_row or append_row
AdapterRows ==
    {<<PyStr(Widget), PyStr(<<"7">>)>>, <<PyStr(Gadget), PyInt(<<"3">>)>>,
     <<None, PyStr(<<"9">>)>>, <<PyStr(TwoWords), NaN>>}

InitSheets ==
    /\ sheet \in SearchSheets
    /\ aCall = NoCall
    /\ nWrites = 0
    /\ clients = NoClients
    /\ toast = NoToast
    /\ auditLog = <<>>
    /\ SearchIdle
    /\ DashInit

AdapterGetDf(up) ==
    /\ aCall' = [op |-> "get_df", ok |-> up, before |-> sheet,
                 df |-> IF up THEN get_df(sheet) ELSE Exc("TransportError")]
    /\ UNCHANGED <<sheet, nWrites, searchVars, dashVars, clients, uiVars>>

AdapterUpdateRow(idx, vals, up) ==
    /\ nWrites < MaxWrites
    /\ idx <= Len(sheet) - 1
    /\ LET res == update_row(sheet, idx, vals, up)
       IN  /\ sheet' = res.sheet
           /\ aCall' = [op |-> "update_row", idx |-> idx, vals |-> vals,
                        up |-> up, ok |-> res.ok, err |-> res.err,
                        before |-> sheet]
    /\ nWrites' = nWrites + 1
    /\ UNCHANGED <<searchVars, dashVars, clients, uiVars>>

AdapterAppendRow(vals, up) ==
    /\ nWrites < MaxWrites
    /\ LET res == append_row(sheet, vals, up)
       IN  /\ sheet' = res.sheet
           /\ aCall' = [op |-> "append_row", idx |-> Len(sheet) - 1,
                        vals |-> vals, up |-> up, ok |-> res.ok,
                        err |-> res.err, before |-> sheet]
    /\ nWrites' = nWrites + 1
    /\ UNCHANGED <<searchVars, dashVars, clients, uiVars>>

NextSheets ==
    \/ \E up \in BOOLEAN : AdapterGetDf(up)
    \/ \E idx \in (-2)..(MaxRows + 1), vals \in AdapterRows, up \in BOOLEAN :
          AdapterUpdateRow(idx, vals, up)
    \/ \E vals \in AdapterRows, up \in BOOLEAN : AdapterAppendRow(vals, up)

SpecSheets == InitSheets /\ [][NextSheets]_vars

\* The two ways a row is appended: the adapter's append_row and the form
NextAppend ==
    \/ \E vals \in AdapterRows, up \in BOOLEAN : AdapterAppendRow(vals, up)
    \/ \E form \in AppendForms, up \in BOOLEAN : UploadRow(form, up)

SpecAppend == Init /\ [][NextAppend]_vars

---------------------------------------------------------------------------
(* Two clients of one worksheet.  Each fetches the table (get_df) and later *)
(* writes one position of the table it fetched (update_row), as _save_row   *)
(* does; meanwhile the shared sheet may gain or lose a row.                 *)

ClientSheets ==
    {<<SearchHeader>> \o rows :
        rows \in SeqsUpTo({<<Widget, <<"5">>>>, <<Gadget, <<"0">>>>}, MaxRows)
                    \ {<<>>}}

\* The row another party types into the shared sheet
TypedRow == <<TwoWords, <<"7">>>>

InitClients ==
    /\ sheet \in ClientSheets
    /\ aCall = NoCall
    /\ nWrites = 0
    /\ clients = NoClients
    /\ toast = NoToast
    /\ auditLog = <<>>
    /\ SearchIdle
    /\ DashInit

\* the number of update_row calls the two clients have made
WritesMade == Cardinality({c \in Clients : clients[c].pc = "written"})

\* get_df(url): the client keeps what the sheet held at that moment
ClientFetch(c, up) ==
    /\ clients[c].pc = "idle"
    /\ clients' = [clients EXCEPT ![c] =
                      IF up THEN [pc |-> "fetched", seen |-> sheet,
                                  df |-> get_df(sheet)]
                      ELSE [pc |-> "idle", exc |-> "TransportError"]]
    /\ UNCHANGED <<sheet, aCall, nWrites, searchVars, dashVars, uiVars>>

\* update_row(url, P, vals) for a position P of the table the client fetched
ClientWrite(c, P, vals, up) ==
    /\ clients[c].pc = "fetched"
    /\ P \in 0..(Len(clients[c].df.rows) - 1)
    /\ LET res == update_row(sheet, P, vals, up)
       IN  /\ sheet' = res.sheet
           /\ clients' = [clients EXCEPT ![c] =
                 [pc |-> "written", seen |-> clients[c].seen,
                  df |-> clients[c].df, idx |-> P, vals |-> vals, up |-> up,
                  ok |-> res.ok, err |-> res.err, before |-> sheet,
                  after |-> res.sheet, at |-> WritesMade + 1]]
    /\ nWrites' = nWrites + 1
    /\ UNCHANGED <<aCall, searchVars, dashVars, uiVars>>

\* Another party inserts a row above the first data row of the shared sheet
OtherInsertRow ==
    /\ nWrites < MaxWrites
    /\ sheet' = <<sheet[1], TypedRow>> \o Tail(sheet)
    /\ nWrites' = nWrites + 1
    /\ UNCHANGED <<aCall, clients, searchVars, dashVars, uiVars>>

\* Another party deletes the first data row of the shared sheet
OtherDeleteRow ==
    /\ nWrites < MaxWrites
    /\ Len(sheet) >= 2
    /\ sheet' = <<sheet[1]>> \o Tail(Tail(sheet))
    /\ nWrites' = nWrites + 1
    /\ UNCHANGED <<aCall, clients, searchVars, dashVars, uiVars>>

NextClients ==
    \/ \E c \in Clients, up \in BOOLEAN : ClientFetch(c, up)
    \/ \E c \in Clients, P \in 0..MaxRows, vals \in AdapterRows,
          up \in BOOLEAN : ClientWrite(c, P, vals, up)
    \/ OtherInsertRow
    \/ OtherDeleteRow

SpecClients == InitClients /\ [][NextClients]_vars

---------------------------------------------------------------------------
(* dash_inventory.py: the audit list and Revert *)

\* a sequence without its element at position p
RemoveAt(seq, p) == SubSeq(seq, 1, p - 1) \o SubSeq(seq, p + 1, Len(seq))

\* _render_audit: the items of the list, newest entry first, each with the
\* index its Revert button carries
_render_audit(log) ==
    [i \in 1..Len(log) |-> [index |-> i - 1, entry |-> log[Len(log) - i + 1]]]

\* _do_revert for the button with index idx: the entry it takes, the call
\* it makes and the log it returns.  readUp: get_df answers; writeUp:
\* update_row's request answers.  An entry whose row the table lacks makes
\* df.at add a row of NaN (not sendable) or df.iloc raise: no write is sent.
_do_revert(sh, log, idx, readUp, writeUp) ==
    LET entry == log[Len(log) - idx]
        kept == RemoveAt(log, Len(log) - idx)
        df == get_df(sh)
    IN  IF ~readUp
        THEN [log |-> kept, sheet |-> sh, call |-> NoCall,
              err |-> "TransportError"]
        ELSE IF entry.row \notin Range(df.index)
        THEN [log |-> kept, sheet |-> sh, call |-> NoCall,
              err |-> "IndexError"]
        ELSE LET set == SetAt(df, entry.row, entry.column, entry.old)
                 vals == set.rows[LabelPos(set, entry.row)]
                 res == update_row(sh, entry.row, vals, writeUp)
             IN  [log |-> kept, sheet |-> res.sheet,
                  call |-> [op |-> "update_row", idx |-> entry.row,
                            vals |-> vals, ok |-> res.ok],
                  err |-> res.err]

\* The entries the session's audit log may hold: time, row, column, the
\* value before the edit and the value after it
AuditEntries ==
    {[time |-> "t1", row |-> 0, column |-> ColQr, old |-> PyStr(<<"9">>),
      new |-> PyStr(<<"5">>)],
     [time |-> "t2", row |-> 1, column |-> ColName, old |-> PyStr(Widget),
      new |-> PyStr(Gadget)],
     [time |-> "t3", row |-> 0, column |-> ColNotes,
      old |-> PyStr(<<>>), new |-> PyStr(TwoWords)]}

MaxLog == 2

InitAudit ==
    /\ sheet \in InvSheets
    /\ aCall = NoCall
    /\ nWrites = 0
    /\ clients = NoClients
    /\ toast = NoToast
    /\ auditLog \in SeqsUpTo(AuditEntries, MaxLog)
    /\ SearchIdle
    /\ DashInit

\* the Revert button of item i of the rendered list is clicked
Revert(i, readUp, writeUp) ==
    /\ i \in 1..Len(_render_audit(auditLog))
    /\ LET idx == _render_audit(auditLog)[i].index
           r == _do_revert(sheet, auditLog, idx, readUp, writeUp)
       IN  /\ auditLog' = r.log
           /\ sheet' = r.sheet
           /\ nWrites' = IF r.call.op = "update_row" THEN nWrites + 1
                         ELSE nWrites
           /\ lastEvt' = Evt("_do_revert", idx, r.call, sheet, r.err,
                             auditLog)
    /\ UNCHANGED <<aCall, clients, toast, searchVars, store, query, field,
                   tableData, tableCols, tableIdx, selected, modalOpen,
                   modal, status>>

NextAudit ==
    \E i \in 1..MaxLog, readUp, writeUp \in BOOLEAN :
        Revert(i, readUp, writeUp)

SpecAudit == InitAudit /\ [][NextAudit]_vars

---------------------------------------------------------------------------
(* Properties of search (SpecSearch) *)

\* the last step ran search and it returned a DataFrame
Searched == sOut.via \in {"search", "main", "loop"} /\ IsDf(sOut.res)

RECURSIVE IsSubseq(_, _)
\* a can be had from b by deleting elements of b
IsSubseq(a, b) ==
    IF a = <<>> THEN TRUE
    ELSE IF b = <<>> THEN FALSE
    ELSE IF Head(a) = Head(b) THEN IsSubseq(Tail(a), Tail(b))
    ELSE IsSubseq(a, Tail(b))

\* C3: for every table T, query and optional column, every position K of
\* V = search(T, query, column) carries an index with
\* T.rows[V.index(K)] = V.rows[K], and the carried indices are strictly
\* increasing in K.
C3_CarriedIndexNamesTheRow ==
    Searched =>
        LET T == sDf
            V == sOut.res
        IN  /\ Len(V.index) = Len(V.rows)
            /\ \A K \in 1..Len(V.rows) :
                  /\ V.index[K] \in 0..(Len(T.rows) - 1)
                  /\ T.rows[V.index[K] + 1] = V.rows[K]
            /\ \A K \in 1..(Len(V.rows) - 1) : V.index[K] < V.index[K + 1]

\* a search whose only match is not the first row of the table
C3_Witness ==
    /\ Searched
    /\ Len(sDf.rows) = 2
    /\ Len(sOut.res.rows) = 1
    /\ sOut.res.index[1] = 1
    /\ sDf.rows[1] # sDf.rows[2]

\* C4: for every table T and query, the rows of search(T, query), read in
\* order, are a subsequence of T's rows: order kept, no row twice, no row
\* inserted or altered.
C4_ResultIsSubsequence ==
    Searched =>
        /\ sOut.res.columns = sDf.columns
        /\ Len(sOut.res.rows) <= Len(sDf.rows)
        /\ IsSubseq(sOut.res.rows, sDf.rows)

\* a non-empty query that two different rows match
C4_Witness ==
    /\ Searched
    /\ Truthy(sOut.query)
    /\ Len(sOut.res.rows) = 2
    /\ sOut.res.rows[1] # sOut.res.rows[2]

\* search(T, "") alone: the empty query returns T, rows and index
SearchEmptyIsIdentity ==
    (sOut.via = "search" /\ sOut.query = PyStr(<<>>) /\ IsDf(sOut.res)) =>
        sOut.res = sDf

\* C10: a query of whitespace only is treated as empty: search applies no
\* filter and returns the full table.
C10_BlankQueryIsEmpty ==
    (/\ sOut.via = "search"
     /\ sOut.query.k = "s"
     /\ sOut.query.v # <<>>
     /\ Strip(sOut.query.v) = <<>>
     /\ IsDf(sOut.res)) =>
        /\ sOut.res.rows = sDf.rows
        /\ sOut.res.index = sDf.index

---------------------------------------------------------------------------
(* Properties of the adapter (SpecSheets) *)

\* the data rows of the sheet a call found
RowCount(sh) == Len(sh) - 1

\* update_row reached the service with values it could send
UpdateSent ==
    aCall.op = "update_row" /\ aCall.up /\ Serialisable(aCall.vals)

\* C5: update_row with position = row count - 1 succeeds; with position =
\* row count, or a negative position, it fails (PositionOutOfRange, or the
\* error under any other name) and the sheet is left as it was.
C5_PositionOutOfRange ==
    UpdateSent =>
        /\ (aCall.idx = RowCount(aCall.before) - 1 /\ aCall.idx >= 0)
              => aCall.ok
        /\ (aCall.idx = RowCount(aCall.before) \/ aCall.idx < 0)
              => /\ ~aCall.ok
                 /\ sheet = aCall.before

\* the value read from a cell that holds text t
CellReads(x, t) ==
    IF t \in NaTokens THEN x = NaN
    ELSE /\ x.k # "nan"
         /\ AsStr(x) \in {t, IntPart(t) \o <<".", "0">>}

\* C6: update_row with data position P writes physical row P + 2 and no
\* other row (header at row 1), and that row is the one get_df returns at
\* index P.
C6_PositionIsPhysicalRowPlusTwo ==
    (aCall.op = "update_row" /\ aCall.ok /\ aCall.idx >= 0) =>
        LET P == aCall.idx
            old == aCall.before
            df == get_df(sheet)
            was(c) == IF P + 2 <= Len(old) THEN old[P + 2][c] ELSE <<>>
        IN  /\ Len(sheet) >= P + 2
            /\ \A c \in 1..Len(sheet[1]) :
                  sheet[P + 2][c] = IF aCall.vals[c].k = "none" THEN was(c)
                                    ELSE aCall.vals[c].v
            /\ \A r \in 1..Len(old) : r # P + 2 => sheet[r] = old[r]
            /\ df.index[P + 1] = P
            /\ \A c \in 1..Len(sheet[1]) :
                  CellReads(df.rows[P + 1][c], sheet[P + 2][c])

\* position 0 of a sheet with two data rows: physical row 2 changed
C6_Witness ==
    /\ aCall.op = "update_row"
    /\ aCall.ok
    /\ aCall.idx = 0
    /\ Len(aCall.before) = 3
    /\ sheet[2] # aCall.before[2]
    /\ sheet[3] = aCall.before[3]

---------------------------------------------------------------------------
(* Properties of the Add New Item form (SpecUpload) *)

\* some yes/no field of the form is, trimmed and lower-cased, outside ok
FormInvalid(form, ok) ==
    \E i \in 1..4 : NormBool(FormBools(form)[i]) \notin ok

Uploading == lastEvt.h = "upload_row"

\* C7: upload_row with a yes/no field that after trimming and lower-casing
\* is neither yes, no nor empty appends nothing and leaves the sheet as it
\* was; with name and qr code given and the worksheet reached, its message
\* is the validation error.
C7_UploadRejectsInvalidYesNo ==
    (Uploading /\ FormInvalid(lastEvt.arg, {Yes, No, <<>>})) =>
        /\ lastEvt.call.op = "none"
        /\ sheet = lastEvt.before
        /\ status \in {"required", "failed", "must be Yes or No"}
        /\ (Truthy(lastEvt.arg.name) /\ Truthy(lastEvt.arg.qr)
              /\ status # "failed") => status = "must be Yes or No"

\* " Yes " passes trimmed and lower-cased, "maybe" is refused
C7_Witness ==
    /\ Uploading
    /\ lastEvt.arg.picture = PyStr(<<" ","Y","e","s"," ">>)
    /\ lastEvt.arg.green = PyStr(Maybe)
    /\ Truthy(lastEvt.arg.name)
    /\ status = "must be Yes or No"
    /\ sheet = lastEvt.before

\* C7 as stated: a yes/no field that after trimming and lower-casing is
\* neither yes nor no makes upload_row fail with the validation error and
\* append nothing.
C7_AsStated ==
    (/\ Uploading
     /\ FormInvalid(lastEvt.arg, {Yes, No})
     /\ Truthy(lastEvt.arg.name)
     /\ Truthy(lastEvt.arg.qr)
     /\ status # "failed") =>
        /\ status = "must be Yes or No"
        /\ lastEvt.call.op = "none"
        /\ sheet = lastEvt.before

---------------------------------------------------------------------------
(* Properties of the dashboard's edit paths (Spec) *)

SaveCalled == lastEvt.h = "_save_row" /\ lastEvt.call.op = "update_row"
InlineCalled == lastEvt.h = "_inline_save" /\ lastEvt.call.op = "update_row"

\* the rows of T the dashboard's query and column select
Hit(T) ==
    IF Truthy(query) THEN Mask(T, query, field)
    ELSE [i \in 1..Len(T.rows) |-> TRUE]

NanText == PyStr(<<"n","a","n">>)

C2_InlineWritesTablePosition ==
    (InlineCalled /\ lastEvt.call.ok) =>
        lastEvt.call.idx = tableIdx[lastEvt.K + 1]

\* a text that is there and is, trimmed and lower-cased, not yes nor no
BadYesNo(x) ==
    x.k = "s" /\ x.v # <<>> /\ Lower(Strip(x.v)) \notin {Yes, No}

\* C8: on every edit path no row goes through update_row to the sheet with
\* a value that is neither yes nor no in a yes/no column.
C8_NoInvalidYesNoWritten ==
    (lastEvt.call.op = "update_row" /\ lastEvt.call.ok) =>
        \A c \in 1..Len(lastEvt.call.vals) :
            lastEvt.before[1][c] \in Range(BoolColumns)
                => ~BadYesNo(lastEvt.call.vals[c])

\* C9: when the query is empty or absent, the search callback shows the
\* full table: every row of the loaded data, in order, each with its own
\* position.
C9_EmptyQueryShowsFullTable ==
    [][((query' # query \/ field' # field) /\ ~Truthy(query')
           /\ json_to_df(store) # None)
          => /\ tableIdx' = json_to_df(store).index
             /\ Len(tableData') = Len(json_to_df(store).rows)]_vars

---------------------------------------------------------------------------
(* Properties of search: what matches (SpecSearch) *)

\* the columns whose cells search tests: the named one, or all
Candidates(T, fld) ==
    IF Truthy(fld) THEN {ColMapGet(T, Lower(fld.v))}
    ELSE 1..Len(T.columns)

\* row i of the table (counted from 1) is in the result
InResult(i) == (i - 1) \in Range(sOut.res.index)

\* C11: a missing cell never makes a row match a non-empty query: a row
\* whose candidate cells are all missing is not in the result, with or
\* without a column given.
C11_MissingNeverMatches ==
    (Searched /\ Truthy(sOut.query)) =>
        \A i \in 1..Len(sDf.rows) :
            InResult(i) =>
                \E c \in Candidates(sDf, sOut.field) : sDf.rows[i][c] # NaN

\* the characters a regular expression reads as syntax
MetaChars == SpecialChars \ {" "}

HasMeta(t) == \E i \in 1..Len(t) : t[i] \in MetaChars

\* C12: matching is literal: for a query with regex metacharacters search
\* raises no pattern error, and a row is in the result exactly when one of
\* its candidate cells holds the query as plain text, letter case ignored.
C12_MatchingIsLiteral ==
    (/\ sOut.via \in {"search", "main", "loop"}
     /\ sOut.query.k = "s"
     /\ HasMeta(sOut.query.v)
     /\ "none" \notin DOMAIN sOut.res) =>
        /\ "exc" \in DOMAIN sOut.res => sOut.res.exc = "SystemExit"
        /\ IsDf(sOut.res) =>
              \A i \in 1..Len(sDf.rows) :
                  InResult(i) <=>
                      \E c \in Candidates(sDf, sOut.field) :
                          Contains(AsStr(sDf.rows[i][c]), sOut.query.v)

\* "A(1)" searched in a table with a cell "A(1)" and a cell "A1": only the
\* first row is found
C12_Witness ==
    /\ sOut.via = "search"
    /\ sOut.query = PyStr(AParen1)
    /\ Len(sDf.rows) = 2
    /\ sDf.rows[1][1] = PyStr(AParen1)
    /\ sDf.rows[2][1] = PyStr(APlain1)
    /\ IsDf(sOut.res)
    /\ sOut.res.index = <<0>>

\* no two column names of the table are equal up to letter case
CaseDistinct(T) ==
    \A c, d \in 1..Len(T.columns) :
        Lower(T.columns[c]) = Lower(T.columns[d]) => c = d

\* On a table whose column names differ beyond letter case: the result is
\* that of search with the column's own name, and holds exactly the rows
\* whose cell in that column contains the query.
FieldNameCaseInsensitiveIfDistinct ==
    (Searched /\ Truthy(sOut.field) /\ CaseDistinct(sDf)) =>
        \A c \in 1..Len(sDf.columns) :
            Lower(sDf.columns[c]) = Lower(sOut.field.v) =>
                /\ sOut.res = search(sDf, sOut.query, PyStr(sDf.columns[c]))
                /\ \A i \in 1..Len(sDf.rows) :
                      InResult(i) <=>
                          Contains(AsStr(sDf.rows[i][c]), sOut.query.v)

\* C13, in the case where the field is the name of a column c letter for
\* letter: a row is in the result exactly when its cell in column c
\* contains the query (cells of other columns are not tested).
C13_FieldNameCaseInsensitive ==
    (Searched /\ Truthy(sOut.field)) =>
        \A c \in 1..Len(sDf.columns) :
            sDf.columns[c] = sOut.field.v =>
                \A i \in 1..Len(sDf.rows) :
                    InResult(i) <=>
                        Contains(AsStr(sDf.rows[i][c]), sOut.query.v)

\* C14: search with a column name that matches no column of the table
\* returns no view and fails with a failure its caller can recover from
\* (UnknownColumn, or one under another name that does not end the
\* process): the prompt loop goes on after it.
C14_UnknownColumnRecoverable ==
    (/\ sOut.via \in {"search", "main", "loop"}
     /\ "none" \notin DOMAIN sOut.res
     /\ sOut.query.k = "s"
     /\ Truthy(sOut.field)
     /\ ~ColMapHas(sDf, Lower(sOut.field.v))) =>
        /\ "exc" \in DOMAIN sOut.res
        /\ sOut.res.exc # "SystemExit"
        /\ sOut.via = "loop" => sPc = "loop"

---------------------------------------------------------------------------
(* Properties of concurrent writers (SpecClients) *)

\* client c made a write that reached the service with values it could send
Sent(c) ==
    /\ clients[c].pc = "written"
    /\ clients[c].up
    /\ Serialisable(clients[c].vals)

\* sheet new is sheet old with the values vals put in the row at position P
\* (a null value leaves its cell), every other row as it was
Landed(new, old, P, vals) ==
    LET w == Len(old[1])
        was(i) == IF i <= Len(old) THEN old[i] ELSE BlankRow(w)
    IN  /\ Len(new) >= P + 2
        /\ \A c \in 1..w :
              new[P + 2][c] = IF vals[c].k = "none" THEN was(P + 2)[c]
                              ELSE Wire(vals[c])
        /\ \A i \in 1..Len(new) : i # P + 2 => new[i] = was(i)
        /\ Len(new) >= Len(old)

\* C16: a write is not checked against the remote state.  Every write a
\* client sends for a position P of the table it fetched succeeds, whatever
\* was written or inserted or deleted in the sheet since the fetch, and
\* lands on position P of the sheet as it is at the moment of the write; so
\* of two writes to the same position, the row ends with the values of the
\* write applied last.
C16_WritesAreBlind ==
    \A c \in Clients :
        Sent(c) =>
            /\ clients[c].ok
            /\ Landed(clients[c].after, clients[c].before, clients[c].idx,
                      clients[c].vals)
            /\ (\A d \in Clients : Sent(d) => clients[d].at <= clients[c].at)
                  /\ sheet = clients[c].after
                  => \A k \in 1..Len(sheet[1]) :
                        clients[c].vals[k].k # "none" =>
                           sheet[clients[c].idx + 2][k] = Wire(clients[c].vals[k])

\* both clients fetched the same table and wrote different values to the
\* same position; a row was deleted in between, so the position is past
\* the table by the time of the writes; the row holds the later values
C16_Witness ==
    /\ Sent("a") /\ Sent("b")
    /\ clients["a"].ok /\ clients["b"].ok
    /\ clients["a"].at = 1 /\ clients["b"].at = 2
    /\ clients["a"].idx = clients["b"].idx
    /\ clients["a"].seen = clients["b"].seen
    /\ clients["a"].before # clients["a"].seen
    /\ clients["a"].idx >= RowCount(clients["a"].before)
    /\ clients["a"].vals[1] # clients["b"].vals[1]
    /\ clients["b"].vals[1].k = "s"
    /\ sheet[clients["b"].idx + 2][1] = Wire(clients["b"].vals[1])

---------------------------------------------------------------------------
(* Properties of appending (SpecAppend) *)

\* sheet new is sheet old with one row after its last row, holding the
\* values vals (None an empty cell), every row of old where and as it was
AppendedTo(old, new, vals) ==
    /\ Len(new) = Len(old) + 1
    /\ RowCount(new) = RowCount(old) + 1
    /\ \A i \in 1..Len(old) : new[i] = old[i]
    /\ \A c \in 1..Len(vals) :
          c <= Len(old[1]) =>
             new[Len(new)][c] = IF vals[c].k = "none" THEN <<>>
                                ELSE Wire(vals[c])

\* this step is an append_row call of the adapter that succeeded
AdapterAppended ==
    /\ sheet' # sheet
    /\ aCall'.op = "append_row"
    /\ aCall'.ok
    /\ aCall'.before = sheet

\* this step is an upload_row that appended
UploadAppended ==
    /\ sheet' # sheet
    /\ lastEvt'.h = "upload_row"
    /\ lastEvt'.call.op = "append_row"
    /\ lastEvt'.before = sheet

---------------------------------------------------------------------------
(* Properties of the columns shown (SpecSearch) *)

\* the command line printed a table of results
PrintedTable == "shown" \in DOMAIN sOut /\ sOut.shown.text = "grid"

\* C18: the columns shown for a result are the DEFAULT_COLUMNS that exist
\* in the table, in DEFAULT_COLUMNS order, and all columns of the table if
\* none of them exists (the rule of do_search and _refresh_table); the
\* shown columns are never none.
C18_ShownColumns ==
    PrintedTable =>
        /\ sOut.shown.cols = DisplayCols(sOut.res.columns)
        /\ sOut.shown.cols # <<>>

---------------------------------------------------------------------------
(* Properties of the edit modal (Spec) *)

\* the edit fields of the table row that the result table shows at view
\* position K: the row of the snapshot with the index label of view row K
FieldsShownAt(K) ==
    LET df == json_to_df(store)
    IN  ModalFieldsOf(df, LabelPos(df, tableIdx[K + 1]) - 1)

\* C19: the modal opened for the row selected at view position K shows the
\* fields of the row displayed there, and a Save that reaches the sheet
\* with the fields as they were opened leaves the cells of the edit columns
\* of that row as they were.
C19_ModalShowsSelectedRow ==
    [][/\ (~modalOpen /\ modalOpen' /\ selected[1] < Len(tableIdx))
             => modal' = FieldsShownAt(selected[1])
       /\ (/\ modalOpen
           /\ selected[1] < Len(tableIdx)
           /\ lastEvt'.h = "_save_row"
           /\ lastEvt'.call.ok
           /\ modal = ModalFieldsOf(json_to_df(store), selected[1]))
          => LET r == tableIdx[selected[1] + 1] + 2
             IN  \A c \in 1..Len(sheet[1]) :
                    HasCol(ModalColumns, sheet[1][c]) =>
                       sheet'[r][c] = sheet[r][c]]_vars

\* the cells of a data-store snapshot as the browser holds them
JsonCells(data) ==
    [i \in 1..Len(data.data) |->
        [c \in 1..Len(data.data[i]) |-> ToJson(data.data[i][c])]]

\* this step is a modal Save whose update_row call failed, made while the
\* table displayed what the query selects from the snapshot
SaveWriteFailed ==
    /\ modalOpen
    /\ Shown = _refresh_table(store, query, field, Shown)
    /\ lastEvt'.h = "_save_row"
    /\ lastEvt'.call.op = "update_row"
    /\ ~lastEvt'.call.ok

\* C20: when update_row fails during a modal Save, the sheet, the
\* data-store snapshot and the displayed table are after the Save what they
\* were before it.
C20_FailedSaveKeepsState ==
    [][SaveWriteFailed =>
          /\ sheet' = sheet
          /\ JsonCells(store') = JsonCells(store)
          /\ store'.columns = store.columns
          /\ tableData' = tableData
          /\ tableCols' = tableCols]_vars

---------------------------------------------------------------------------
(* Properties of the undo toast (SpecToast) *)

\* C21: from every delete or restock click, the first as well as any later
\* one, the toast is open and the interval enabled until Undo is clicked
\* or 50 ticks have gone by since that click.
C21_ToastStaysOpen ==
    toast.armed => toast.is_open /\ ~toast.disabled

---------------------------------------------------------------------------
(* Properties of Revert (SpecAudit) *)

Reverted == lastEvt.h = "_do_revert"

====
